---- MODULE Spec2Model ----
(***************************************************************************)
(* rpcalc: the optimal purchase planner of src/src/App.tsx.                *)
(*                                                                         *)
(* findOptimalPlan(targetRP, tiers) is modelled statement by statement:    *)
(* the early return, the set-up of the dp / parent tables, the fill loop   *)
(* (one step per (i, tier) pair), the selection scan and the walk over     *)
(* the parent links.  One behaviour is one call of the function.           *)
(***************************************************************************)
EXTENDS Integers, Sequences, FiniteSets

VARIABLES
    tiers,          \* the tiers argument: a sequence of RPPackage
    targetRP,       \* the targetRP argument
    pc,             \* position in findOptimalPlan
    maxPossibleRP,  \* const maxPossibleRP
    dp,             \* the dp array, 0..maxPossibleRP
    parent,         \* the parent array, 0..maxPossibleRP
    i,              \* loop index of the fill loop, then of the scan loop
    k,              \* position of `for (const tier of tiers)`, 1..Len(tiers)+1
    minPrice,       \* let minPrice
    bestRP,         \* let bestRP
    curr,           \* let curr
    resultPackages, \* const resultPackages
    result,         \* the returned object, NoResult until the call returns
    mode,           \* App: const [mode, setMode]
    settings,       \* App: const [settings, setSettings]
    localPrices,    \* SettingsScreen: const [localPrices, setLocalPrices]
    showPriceEdit,  \* SettingsScreen: const [showPriceEdit, setShowPriceEdit]
    planTargetRP    \* PlanScreen: const [targetRP, setTargetRP], a text

(* The arguments and locals of findOptimalPlan. *)
callVars == <<tiers, targetRP, pc, maxPossibleRP, dp, parent, i, k,
              minPrice, bestRP, curr, resultPackages, result>>

(* The React state of App, SettingsScreen and PlanScreen. *)
uiVars == <<mode, settings, localPrices, showPriceEdit, planTargetRP>>

vars == <<callVars, uiVars>>

(***************************************************************************)
(* Bounds of the enumerated inputs.                                        *)
(***************************************************************************)
MaxTiers == 2
MaxRP == 2
MaxPrice == 2
MaxTarget == 3

(***************************************************************************)
(* JavaScript numbers as far as the function uses them: an integer or      *)
(* +Infinity.  Infinity + p is Infinity; x < Infinity holds for every      *)
(* finite x; Infinity < x never holds.                                     *)
(***************************************************************************)
Infinity == [fin |-> FALSE, val |-> 0]

Num(n) == [fin |-> TRUE, val |-> n]

Plus(a, p) == IF a.fin THEN Num(a.val + p) ELSE Infinity

Less(a, b) ==
    IF a.fin
        THEN (IF b.fin THEN a.val < b.val ELSE TRUE)
        ELSE FALSE

(***************************************************************************)
(* interface RPPackage { id, rp, price }                                   *)
(***************************************************************************)
RPPackage(id, rp, price) == [id |-> id, rp |-> rp, price |-> price]

(* parent[j] is null (the empty sequence) or one { tier, prevRP } object. *)
null == <<>>

(* Mutant: the link records the amount reached, not the amount left. *)
ParentLinkToSelf(tier, prevRP) == <<[tier |-> tier, prevRP |-> prevRP + tier.rp]>>

ParentLink(tier, prevRP) == <<[tier |-> tier, prevRP |-> prevRP]>>

NoResult == [returned |-> FALSE]

PlanResult(packages, totalRP, totalPrice) ==
    [returned |-> TRUE, packages |-> packages,
     totalRP |-> totalRP, totalPrice |-> totalPrice]

Max(a, b) == IF a >= b THEN a ELSE b

(* tiers.reduce((max, t) => Math.max(max, t.rp), 0) *)
RECURSIVE MaxRPUpTo(_, _)
MaxRPUpTo(ts, n) ==
    IF n = 0 THEN 0 ELSE Max(MaxRPUpTo(ts, n - 1), ts[n].rp)

maxRP(ts) == MaxRPUpTo(ts, Len(ts))

(***************************************************************************)
(* Inputs.  Tier lists carry the ids 1..n in order, as DEFAULT_RP_TIERS    *)
(* does.                                                                   *)
(***************************************************************************)
TierLists(rps, prices) ==
    UNION {
        { [x \in 1..n |-> RPPackage(x, rp[x], price[x])] :
            rp \in [1..n -> rps], price \in [1..n -> prices] }
        : n \in 0..MaxTiers }

ValidTiers == { ts \in TierLists(1..MaxRP, 1..MaxPrice) : Len(ts) > 0 }

AnyTiers == TierLists(-1..MaxRP, -1..MaxPrice)

Targets == -1..MaxTarget

(* The first three entries of DEFAULT_RP_TIERS and the SKIN_PRESETS target 1820. *)
ScenarioTiers ==
    <<RPPackage(1, 480, 4900), RPPackage(2, 980, 9900), RPPackage(3, 1425, 14000)>>

ScenarioTarget == 1820

(***************************************************************************)
(* The state around the call: App's settings, the text fields of           *)
(* SettingsScreen and PlanScreen.  A text is a sequence of characters.     *)
(***************************************************************************)
MaxText == 1
MaxEditedTiers == 1

DEFAULT_RP_TIERS ==
    <<RPPackage(1, 480, 4900), RPPackage(2, 980, 9900), RPPackage(3, 1425, 14000),
      RPPackage(4, 3700, 35000), RPPackage(5, 7200, 65000), RPPackage(6, 11800, 99900)>>

(* The rp of SKIN_PRESETS.slice(0, 4) *)
PresetRPs == <<1820, 1350, 975, 520>>

(* customPrices: {} ; a Record<number, number> is a function on the ids set. *)
NoPrices == [id \in {} |-> 0]

(* useState<AppSettings>({ baseTierId: 6, customPrices: {} }) *)
DefaultSettings == [baseTierId |-> 6, customPrices |-> NoPrices]

(* { ...record, [key]: value } *)
Spread(record, key, value) ==
    [x \in DOMAIN record \cup {key} |-> IF x = key THEN value ELSE record[x]]

(* DEFAULT_RP_TIERS.map(t => ({ ...t, price: customPrices[t.id] ?? t.price })) *)
AppTiers(st) ==
    [n \in 1..Len(DEFAULT_RP_TIERS) |->
        LET t == DEFAULT_RP_TIERS[n] IN
            RPPackage(t.id, t.rp,
                      IF t.id \in DOMAIN st.customPrices
                          THEN st.customPrices[t.id]
                          ELSE t.price)]

(* The texts typed into the fields: every text over a digit 0, a digit 7   *)
(* and a sign up to MaxText long, and four fixed ones: a negative number,  *)
(* a fraction, a number after a blank, and no number at all.               *)
Chars == {"0", "7", "-"}

SampleTexts ==
    { <<"-", "7">>, <<"7", ".", "5">>, <<" ", "7">>, <<"a", "b", "c">> }

Texts == UNION { [1..n -> Chars] : n \in 0..MaxText } \cup SampleTexts

EditedIds == 1..MaxEditedTiers

(***************************************************************************)
(* parseInt(text): leading white space is skipped, one sign is read, then  *)
(* the longest run of decimal digits; NaN when there is no digit.  What    *)
(* follows the digits is ignored.                                          *)
(***************************************************************************)
NaN == [nan |-> TRUE, val |-> 0]

Parsed(n) == [nan |-> FALSE, val |-> n]

isNaN(x) == x.nan

DigitChars == <<"0", "1", "2", "3", "4", "5", "6", "7", "8", "9">>

IsDigit(c) == \E n \in 1..Len(DigitChars) : DigitChars[n] = c

DigitValue(c) == (CHOOSE n \in 1..Len(DigitChars) : DigitChars[n] = c) - 1

RECURSIVE TrimStart(_)
TrimStart(text) ==
    IF text # <<>> /\ text[1] = " " THEN TrimStart(Tail(text)) ELSE text

RECURSIVE ReadDigits(_, _, _)
ReadDigits(text, acc, n) ==
    IF text # <<>> /\ IsDigit(text[1])
        THEN ReadDigits(Tail(text), acc * 10 + DigitValue(text[1]), n + 1)
        ELSE [val |-> acc, digits |-> n]

parseInt(text) ==
    LET t == TrimStart(text)
        signed == t # <<>> /\ t[1] \in {"-", "+"}
        negative == t # <<>> /\ t[1] = "-"
        read == ReadDigits(IF signed THEN Tail(t) ELSE t, 0, 0)
    IN IF read.digits = 0
           THEN NaN
           ELSE Parsed(IF negative THEN 0 - read.val ELSE read.val)

(* n.toString() for an integer n >= 0 *)
RECURSIVE toString(_)
toString(n) ==
    IF n < 10
        THEN <<DigitChars[n + 1]>>
        ELSE Append(toString(n \div 10), DigitChars[(n % 10) + 1])

(* The locals of findOptimalPlan before its first statement. *)
FreshLocals ==
    /\ maxPossibleRP = 0
    /\ dp = <<>>
    /\ parent = <<>>
    /\ i = 0
    /\ k = 1
    /\ minPrice = Infinity
    /\ bestRP = 0
    /\ curr = 0
    /\ resultPackages = <<>>
    /\ result = NoResult

(* The state of the application when it is mounted. *)
UIStart ==
    /\ mode = "home"
    /\ settings = DefaultSettings
    /\ localPrices = NoPrices
    /\ showPriceEdit = FALSE
    /\ planTargetRP = <<>>

(* A call of findOptimalPlan(t, ts) taken by itself. *)
Entry(ts, t) ==
    /\ tiers = ts
    /\ targetRP = t
    /\ pc = "start"
    /\ FreshLocals
    /\ UIStart

Init == \E ts \in ValidTiers, t \in Targets : Entry(ts, t)

InitAny == \E ts \in AnyTiers, t \in Targets : Entry(ts, t)

InitScenario ==
    \/ Init
    \/ Entry(ScenarioTiers, ScenarioTarget)
    \/ Entry(<<RPPackage(1, 100, 10)>>, 250)

(***************************************************************************)
(* if (targetRP <= 0) return { packages: [], totalRP: 0, totalPrice: 0 }   *)
(***************************************************************************)
(* Mutant: only a negative target returns early. *)
EarlyReturnNegative(t) == t < 0

EarlyReturn(t) == t <= 0

ReturnEmpty ==
    /\ pc = "start"
    /\ EarlyReturn(targetRP)
    /\ result' = PlanResult(<<>>, 0, Num(0))
    /\ pc' = "done"
    /\ UNCHANGED <<tiers, targetRP, maxPossibleRP, dp, parent, i, k,
                   minPrice, bestRP, curr, resultPackages>>
    /\ UNCHANGED uiVars

(* Mutant: dp[0] = 0 is forgotten. *)
InitialDpAllInfinity(c) == [j \in 0..c |-> Infinity]

(* Mutant: the tables end at the target itself. *)
CeilingAtTarget(t, ts) == t

(* The ceiling of the tables: targetRP + maxRP. *)
Ceiling(t, ts) == t + maxRP(ts)

(* new Array(maxPossibleRP + 1).fill(Infinity); dp[0] = 0 *)
InitialDp(c) == [j \in 0..c |-> IF j = 0 THEN Num(0) ELSE Infinity]

(* new Array(maxPossibleRP + 1).fill(null) *)
InitialParent(c) == [j \in 0..c |-> null]

Setup ==
    /\ pc = "start"
    /\ ~EarlyReturn(targetRP)
    /\ maxPossibleRP' = Ceiling(targetRP, tiers)
    /\ dp' = InitialDp(Ceiling(targetRP, tiers))
    /\ parent' = InitialParent(Ceiling(targetRP, tiers))
    /\ i' = 0
    /\ k' = 1
    /\ pc' = "fill"
    /\ UNCHANGED <<tiers, targetRP, minPrice, bestRP, curr, resultPackages, result>>
    /\ UNCHANGED uiVars

(***************************************************************************)
(* The fill loop: for (let i = 0; i < maxPossibleRP; i++)                  *)
(***************************************************************************)
(* if (dp[i] === Infinity) continue *)
FillSkip ==
    /\ pc = "fill"
    /\ i < maxPossibleRP
    /\ k = 1
    /\ dp[i] = Infinity
    /\ i' = i + 1
    /\ UNCHANGED <<tiers, targetRP, pc, maxPossibleRP, dp, parent, k,
                   minPrice, bestRP, curr, resultPackages, result>>
    /\ UNCHANGED uiVars

(* Mutant: <= in place of <, an equal price overwrites the entry. *)
ImprovesOnTie(d, from, tier) ==
    LET nextRP == from + tier.rp IN
        /\ nextRP <= maxPossibleRP
        /\ nextRP >= 0
        /\ ~Less(d[nextRP], Plus(d[from], tier.price))

(* Mutant: the price comparison is dropped, the last writer wins. *)
ImprovesAlways(d, from, tier) ==
    LET nextRP == from + tier.rp IN
        /\ nextRP <= maxPossibleRP
        /\ nextRP >= 0

(* Mutant: the price comparison is dropped, whatever the ceiling. *)
ImprovesWithinAlways(d, c, from, tier) ==
    LET nextRP == from + tier.rp IN
        /\ nextRP <= c
        /\ nextRP >= 0

(* if (nextRP <= maxPossibleRP) if (dp[i] + tier.price < dp[nextRP]), for  *)
(* a table with ceiling c.  dp[nextRP] is undefined for an index below 0,  *)
(* and x < undefined is false.                                             *)
ImprovesWithin(d, c, from, tier) ==
    LET nextRP == from + tier.rp IN
        /\ nextRP <= c
        /\ nextRP >= 0
        /\ Less(Plus(d[from], tier.price), d[nextRP])

Improves(d, from, tier) == ImprovesWithin(d, maxPossibleRP, from, tier)

(* One pass of the body of `for (const tier of tiers)`. *)
FillTier ==
    /\ pc = "fill"
    /\ i < maxPossibleRP
    /\ dp[i] # Infinity
    /\ k <= Len(tiers)
    /\ LET tier == tiers[k]
           nextRP == i + tier.rp
       IN IF Improves(dp, i, tier)
              THEN /\ dp' = [dp EXCEPT ![nextRP] = Plus(dp[i], tier.price)]
                   /\ parent' = [parent EXCEPT ![nextRP] = ParentLink(tier, i)]
              ELSE UNCHANGED <<dp, parent>>
    /\ k' = k + 1
    /\ UNCHANGED <<tiers, targetRP, pc, maxPossibleRP, i,
                   minPrice, bestRP, curr, resultPackages, result>>
    /\ UNCHANGED uiVars

(* The inner loop is exhausted: i++ *)
FillNext ==
    /\ pc = "fill"
    /\ i < maxPossibleRP
    /\ dp[i] # Infinity
    /\ k > Len(tiers)
    /\ i' = i + 1
    /\ k' = 1
    /\ UNCHANGED <<tiers, targetRP, pc, maxPossibleRP, dp, parent,
                   minPrice, bestRP, curr, resultPackages, result>>
    /\ UNCHANGED uiVars

(* Mutant: the selection scan starts at amount 0. *)
ScanStartZero(t) == 0

(* The first amount the selection scan looks at: let i = targetRP *)
ScanStart(t) == t

(* i < maxPossibleRP fails; let minPrice = Infinity; let bestRP = targetRP *)
FillExit ==
    /\ pc = "fill"
    /\ i >= maxPossibleRP
    /\ minPrice' = Infinity
    /\ bestRP' = targetRP
    /\ i' = ScanStart(targetRP)
    /\ pc' = "scan"
    /\ UNCHANGED <<tiers, targetRP, maxPossibleRP, dp, parent, k,
                   curr, resultPackages, result>>
    /\ UNCHANGED uiVars

(***************************************************************************)
(* The selection scan: for (let i = targetRP; i <= maxPossibleRP; i++)     *)
(***************************************************************************)
(* Mutant: the comparison is against Infinity, not against minPrice. *)
SelectsAnyFinite(d, m) == Less(d, Infinity)

(* Mutant: a later amount of equal price replaces the earlier one. *)
SelectsOnTie(d, m) == Less(d, m) \/ d = m

(* if (dp[i] < minPrice) *)
Selects(d, m) == Less(d, m)

ScanStep ==
    /\ pc = "scan"
    /\ i <= maxPossibleRP
    /\ IF Selects(dp[i], minPrice)
           THEN /\ minPrice' = dp[i]
                /\ bestRP' = i
           ELSE UNCHANGED <<minPrice, bestRP>>
    /\ i' = i + 1
    /\ UNCHANGED <<tiers, targetRP, pc, maxPossibleRP, dp, parent, k,
                   curr, resultPackages, result>>
    /\ UNCHANGED uiVars

(* const resultPackages = []; let curr = bestRP *)
ScanExit ==
    /\ pc = "scan"
    /\ i > maxPossibleRP
    /\ resultPackages' = <<>>
    /\ curr' = bestRP
    /\ pc' = "walk"
    /\ UNCHANGED <<tiers, targetRP, maxPossibleRP, dp, parent, i, k,
                   minPrice, bestRP, result>>
    /\ UNCHANGED uiVars

(***************************************************************************)
(* The walk: while (curr > 0 && parent[curr]) { push; curr = prevRP }      *)
(***************************************************************************)
WalkGoesOn == curr > 0 /\ parent[curr] # null

(* More steps than the table has entries: the walk has come back to an     *)
(* amount it already left, and the loop never ends.                        *)
WalkCycles == Len(resultPackages) > maxPossibleRP

WalkStep ==
    /\ pc = "walk"
    /\ WalkGoesOn
    /\ ~WalkCycles
    /\ resultPackages' = Append(resultPackages, parent[curr][1].tier)
    /\ curr' = parent[curr][1].prevRP
    /\ UNCHANGED <<tiers, targetRP, pc, maxPossibleRP, dp, parent, i, k,
                   minPrice, bestRP, result>>
    /\ UNCHANGED uiVars

Diverge ==
    /\ pc = "walk"
    /\ WalkGoesOn
    /\ WalkCycles
    /\ pc' = "diverged"
    /\ UNCHANGED <<tiers, targetRP, maxPossibleRP, dp, parent, i, k,
                   minPrice, bestRP, curr, resultPackages, result>>
    /\ UNCHANGED uiVars

(* return { packages: resultPackages, totalRP: bestRP, totalPrice: minPrice } *)
Return ==
    /\ pc = "walk"
    /\ ~WalkGoesOn
    /\ result' = PlanResult(resultPackages, bestRP, minPrice)
    /\ pc' = "done"
    /\ UNCHANGED <<tiers, targetRP, maxPossibleRP, dp, parent, i, k,
                   minPrice, bestRP, curr, resultPackages>>
    /\ UNCHANGED uiVars

(***************************************************************************)
(* findOptimalPlan as a function of its arguments (targetRP > 0): the      *)
(* same fill, scan and walk, run to their end on a given tier list.        *)
(***************************************************************************)
RECURSIVE FillFrom(_, _, _, _, _)
FillFrom(tab, c, ts, idx, kk) ==
    IF idx >= c
        THEN tab
        ELSE IF tab.dp[idx] = Infinity \/ kk > Len(ts)
            THEN FillFrom(tab, c, ts, idx + 1, 1)
            ELSE LET tier == ts[kk]
                     nextRP == idx + tier.rp
                 IN FillFrom(
                        IF ImprovesWithin(tab.dp, c, idx, tier)
                            THEN [dp |-> [tab.dp EXCEPT
                                             ![nextRP] = Plus(tab.dp[idx], tier.price)],
                                  parent |-> [tab.parent EXCEPT
                                             ![nextRP] = ParentLink(tier, idx)]]
                            ELSE tab,
                        c, ts, idx, kk + 1)

FillTables(t, ts) ==
    FillFrom([dp |-> InitialDp(Ceiling(t, ts)),
              parent |-> InitialParent(Ceiling(t, ts))],
             Ceiling(t, ts), ts, 0, 1)

RECURSIVE ScanFrom(_, _, _, _, _)
ScanFrom(d, c, idx, min, best) ==
    IF idx > c
        THEN [minPrice |-> min, bestRP |-> best]
        ELSE IF Selects(d[idx], min)
            THEN ScanFrom(d, c, idx + 1, d[idx], idx)
            ELSE ScanFrom(d, c, idx + 1, min, best)

RECURSIVE WalkFrom(_, _, _)
WalkFrom(par, at, packages) ==
    IF at > 0 /\ par[at] # null
        THEN WalkFrom(par, par[at][1].prevRP, Append(packages, par[at][1].tier))
        ELSE packages

PlanOf(t, ts) ==
    LET tab == FillTables(t, ts)
        best == ScanFrom(tab.dp, Ceiling(t, ts), ScanStart(t), Infinity, t)
    IN PlanResult(WalkFrom(tab.parent, best.bestRP, <<>>), best.bestRP, best.minPrice)

(***************************************************************************)
(* PlanScreen groups the returned packages by id: acc[p.id] =              *)
(* (acc[p.id] || 0) + 1, and finds each item's tier by tiers.find.         *)
(***************************************************************************)
GroupById(packages) ==
    [id \in { packages[n].id : n \in 1..Len(packages) } |->
        Cardinality({ n \in 1..Len(packages) : packages[n].id = id })]

(* tiers.find(t => t.id === id): the first tier of that id. *)
FindTier(ts, id) ==
    ts[CHOOSE n \in 1..Len(ts) :
           /\ ts[n].id = id
           /\ \A m \in 1..(n - 1) : ts[m].id # id]

(***************************************************************************)
(* The application: no call of findOptimalPlan is pending until PlanScreen *)
(* makes one.                                                              *)
(***************************************************************************)
InitUI ==
    /\ tiers = <<>>
    /\ targetRP = 0
    /\ pc = "idle"
    /\ FreshLocals
    /\ UIStart

(* planningResult is null: no call. *)
NoCall ==
    /\ tiers' = <<>>
    /\ targetRP' = 0
    /\ pc' = "idle"
    /\ UNCHANGED <<maxPossibleRP, dp, parent, i, k,
                   minPrice, bestRP, curr, resultPackages, result>>

(* Mutant: a target of 0 is let through. *)
InvokesFromZero(val) == ~(isNaN(val) \/ val.val < 0)

(* if (isNaN(val) || val <= 0) return null *)
Invokes(val) == ~(isNaN(val) \/ val.val <= 0)

(* PlanScreen's useMemo for the text in the field and the tiers of the     *)
(* context: findOptimalPlan(val, tiers) is entered, or the result is null. *)
PlanningResult(text, ts) ==
    LET val == parseInt(text) IN
        IF Invokes(val)
            THEN /\ tiers' = ts
                 /\ targetRP' = val.val
                 /\ pc' = "start"
                 /\ UNCHANGED <<maxPossibleRP, dp, parent, i, k,
                                minPrice, bestRP, curr, resultPackages, result>>
            ELSE NoCall

(* HomeScreen: onClick={() => setMode(m)}.  The screen mounts with its     *)
(* initial state; PlanScreen renders with targetRP = ''.                   *)
OpenScreen ==
    /\ mode = "home"
    /\ \E m \in {"calculate", "plan", "efficiency", "settings"} : mode' = m
    /\ NoCall
    /\ UNCHANGED <<settings, localPrices, showPriceEdit, planTargetRP>>

(* onClick={() => setMode('home')}: the screen and its state are dropped. *)
GoHome ==
    /\ mode # "home"
    /\ mode' = "home"
    /\ localPrices' = NoPrices
    /\ showPriceEdit' = FALSE
    /\ planTargetRP' = <<>>
    /\ NoCall
    /\ UNCHANGED settings

(* setSettings({ ...settings, baseTierId: tierId }) *)
handleBaseTierChange(tierId) ==
    /\ mode = "settings"
    /\ settings' = [settings EXCEPT !.baseTierId = tierId]
    /\ UNCHANGED <<callVars, mode, localPrices, showPriceEdit, planTargetRP>>

(* onClick={() => setShowPriceEdit(!showPriceEdit)} *)
TogglePriceEdit ==
    /\ mode = "settings"
    /\ showPriceEdit' = ~showPriceEdit
    /\ UNCHANGED <<callVars, mode, settings, localPrices, planTargetRP>>

(* setLocalPrices({ ...localPrices, [tierId]: value }) *)
handlePriceChange(tierId, value) ==
    /\ mode = "settings"
    /\ showPriceEdit
    /\ localPrices' = Spread(localPrices, tierId, value)
    /\ UNCHANGED <<callVars, mode, settings, showPriceEdit, planTargetRP>>

(* Mutant: a price of 0 is stored. *)
StoresPriceFromZero(value) == ~isNaN(value) /\ value.val >= 0

(* if (!isNaN(value) && value > 0) *)
StoresPrice(value) == ~isNaN(value) /\ value.val > 0

(* parseInt(localPrices[tierId]); parseInt(undefined) is NaN. *)
BlurredValue(tierId) ==
    IF tierId \in DOMAIN localPrices THEN parseInt(localPrices[tierId]) ELSE NaN

handlePriceBlur(tierId) ==
    /\ mode = "settings"
    /\ showPriceEdit
    /\ LET value == BlurredValue(tierId) IN
           IF StoresPrice(value)
               THEN settings' = [settings EXCEPT !.customPrices =
                                    Spread(settings.customPrices, tierId, value.val)]
               ELSE UNCHANGED settings
    /\ localPrices' = Spread(localPrices, tierId, <<>>)
    /\ UNCHANGED <<callVars, mode, showPriceEdit, planTargetRP>>

(* setSettings({ baseTierId: 6, customPrices: {} }); setLocalPrices({}) *)
resetAll ==
    /\ mode = "settings"
    /\ settings' = DefaultSettings
    /\ localPrices' = NoPrices
    /\ UNCHANGED <<callVars, mode, showPriceEdit, planTargetRP>>

(* onChange={(e) => setTargetRP(e.target.value)}, then the render. *)
setTargetRP(text) ==
    /\ mode = "plan"
    /\ planTargetRP' = text
    /\ PlanningResult(text, AppTiers(settings))
    /\ UNCHANGED <<mode, settings, localPrices, showPriceEdit>>

NextUI ==
    \/ OpenScreen
    \/ GoHome
    \/ \E tierId \in 1..Len(DEFAULT_RP_TIERS) : handleBaseTierChange(tierId)
    \/ TogglePriceEdit
    \/ \E tierId \in EditedIds, value \in Texts : handlePriceChange(tierId, value)
    \/ \E tierId \in EditedIds : handlePriceBlur(tierId)
    \/ resetAll
    \/ \E text \in Texts : setTargetRP(text)
    \/ \E n \in 1..Len(PresetRPs) : setTargetRP(toString(PresetRPs[n]))

Next ==
    \/ ReturnEmpty
    \/ Setup
    \/ FillSkip
    \/ FillTier
    \/ FillNext
    \/ FillExit
    \/ ScanStep
    \/ ScanExit
    \/ WalkStep
    \/ Return

NextAny ==
    \/ Next
    \/ Diverge

(* Calls with a valid catalogue: non-empty, every rp > 0 and price > 0. *)
Spec == Init /\ [][Next]_vars

(* Calls with any catalogue, the empty and the non-positive ones included. *)
SpecAny == InitAny /\ [][NextAny]_vars

(* The valid calls, the call of the 1820 RP scenario and the call with the *)
(* single denomination 100/10 and target 250.                             *)
SpecScenario == InitScenario /\ [][Next]_vars

(* The application: any sequence of screen changes, settings operations    *)
(* and target edits.                                                       *)
SpecUI == InitUI /\ [][NextUI]_vars

(***************************************************************************)
(* Vocabulary of the properties.                                           *)
(***************************************************************************)
RECURSIVE SumRP(_)
SumRP(ps) == IF ps = <<>> THEN 0 ELSE ps[1].rp + SumRP(Tail(ps))

RECURSIVE SumPrice(_)
SumPrice(ps) == IF ps = <<>> THEN 0 ELSE ps[1].price + SumPrice(Tail(ps))

(* A call with targetRP > 0 has returned. *)
Planned == pc = "done" /\ targetRP > 0

(* A multiset of denominations is a vector of counts, one per tier.  The   *)
(* counts of tier n run past the point where its copies alone exceed       *)
(* targetRP + maxRP, so the vectors reach amounts beyond the ceiling.      *)
CountCap(n) == ((targetRP + maxRP(tiers)) \div tiers[n].rp) + 1

RECURSIVE CountVectors(_)
CountVectors(n) ==
    IF n = 0
        THEN {<<>>}
        ELSE { Append(v, c) : v \in CountVectors(n - 1), c \in 0..CountCap(n) }

Multisets == CountVectors(Len(tiers))

RECURSIVE AmountUpTo(_, _)
AmountUpTo(v, n) ==
    IF n = 0 THEN 0 ELSE AmountUpTo(v, n - 1) + v[n] * tiers[n].rp

AmountOf(v) == AmountUpTo(v, Len(tiers))

RECURSIVE PriceUpTo(_, _)
PriceUpTo(v, n) ==
    IF n = 0 THEN 0 ELSE PriceUpTo(v, n - 1) + v[n] * tiers[n].price

PriceOf(v) == PriceUpTo(v, Len(tiers))

(***************************************************************************)
(* C1  Optimality.  When a call with a valid catalogue and targetRP > 0    *)
(* has returned, totalPrice is finite and no multiset of denominations     *)
(* whose amounts sum to at least targetRP, the ones beyond the ceiling     *)
(* included, costs strictly less than totalPrice.  For 480/4900, 980/9900, *)
(* 1425/14000 and target 1820 the call returns totalRP 1905 and            *)
(* totalPrice 18900.                                                       *)
(***************************************************************************)
Optimality ==
    Planned =>
        /\ result.totalPrice.fin
        /\ \A v \in Multisets :
               PriceOf(v) < result.totalPrice.val => AmountOf(v) < targetRP
        /\ (tiers = ScenarioTiers /\ targetRP = ScenarioTarget) =>
               /\ result.totalRP = 1905
               /\ result.totalPrice = Num(18900)

(* A call has returned a plan that overshoots the target because the       *)
(* multisets hitting the target exactly cost more, while multisets of      *)
(* amounts beyond the ceiling were on offer too.                           *)
OptimalityWitness ==
    /\ Planned
    /\ result.totalRP > targetRP
    /\ \E v \in Multisets :
           AmountOf(v) = targetRP /\ PriceOf(v) > result.totalPrice.val
    /\ \E v \in Multisets : AmountOf(v) > maxPossibleRP

(***************************************************************************)
(* C2  Feasibility.  When a call with a valid catalogue and targetRP > 0   *)
(* has returned, the plan's totalRP is at least targetRP, and so is the    *)
(* amount of the packages it lists.                                        *)
(***************************************************************************)
Feasibility ==
    Planned =>
        /\ result.returned
        /\ result.totalRP >= targetRP
        /\ SumRP(result.packages) >= targetRP

(* A returned plan that overshoots the target. *)
FeasibilityWitness ==
    /\ Planned
    /\ result.totalRP > targetRP
    /\ Len(result.packages) >= 2

(***************************************************************************)
(* C4  Tie-break.  When a call with a valid catalogue and targetRP > 0     *)
(* has returned, some multiset of amount totalRP costs totalPrice, and     *)
(* every multiset of amount >= targetRP whose price equals the returned    *)
(* totalPrice (the minimum, by C1) has an amount >= the returned totalRP.  *)
(***************************************************************************)
TieBreak ==
    Planned =>
        LET ms == Multisets IN
            /\ \E v \in ms :
                   /\ AmountOf(v) = result.totalRP
                   /\ Num(PriceOf(v)) = result.totalPrice
            /\ \A v \in ms :
                   (AmountOf(v) >= targetRP /\ Num(PriceOf(v)) = result.totalPrice)
                       => result.totalRP <= AmountOf(v)

(* Two amounts within the scanned range tie at the returned price. *)
TieBreakWitness ==
    /\ Planned
    /\ \E v \in Multisets :
           /\ AmountOf(v) > result.totalRP
           /\ AmountOf(v) <= maxPossibleRP
           /\ Num(PriceOf(v)) = result.totalPrice
           /\ dp[AmountOf(v)] = result.totalPrice

(***************************************************************************)
(* C3  Consistency, as claimed of every call that returns a plan:          *)
(* totalPrice is the sum of the prices of the returned packages and        *)
(* totalRP the sum of their amounts; the same sums taken over the          *)
(* (id, count) items of PlanScreen agree.                                  *)
(***************************************************************************)
ItemsPrice(ts, packages) ==
    LET items == GroupById(packages)
        ids == DOMAIN items
        RECURSIVE Sum(_)
        Sum(S) == IF S = {} THEN 0
                  ELSE LET id == CHOOSE x \in S : TRUE
                       IN items[id] * FindTier(ts, id).price + Sum(S \ {id})
    IN Sum(ids)

ItemsAmount(ts, packages) ==
    LET items == GroupById(packages)
        ids == DOMAIN items
        RECURSIVE Sum(_)
        Sum(S) == IF S = {} THEN 0
                  ELSE LET id == CHOOSE x \in S : TRUE
                       IN items[id] * FindTier(ts, id).rp + Sum(S \ {id})
    IN Sum(ids)

Consistency ==
    result.returned =>
        /\ result.totalPrice = Num(SumPrice(result.packages))
        /\ result.totalRP = SumRP(result.packages)
        /\ result.totalPrice = Num(ItemsPrice(tiers, result.packages))
        /\ result.totalRP = ItemsAmount(tiers, result.packages)

(***************************************************************************)
(* C5  Invalid input is rejected, as claimed: a call with targetRP > 0     *)
(* and a catalogue that is empty or holds a non-positive rp or price       *)
(* never returns a plan.                                                   *)
(***************************************************************************)
ValidCatalogue(ts) ==
    /\ Len(ts) > 0
    /\ \A n \in 1..Len(ts) : ts[n].rp > 0 /\ ts[n].price > 0

InvalidInputRejected ==
    (targetRP > 0 /\ ~ValidCatalogue(tiers)) => ~result.returned

(***************************************************************************)
(* C6  Non-positive target.  A call with targetRP <= 0, whatever the       *)
(* catalogue, goes from its entry straight to its return, returns exactly  *)
(* { packages: [], totalRP: 0, totalPrice: 0 } and builds no table.        *)
(***************************************************************************)
NonPositiveTarget ==
    targetRP <= 0 =>
        /\ pc \in {"start", "done"}
        /\ dp = <<>>
        /\ parent = <<>>
        /\ pc = "done" => result = PlanResult(<<>>, 0, Num(0))

(* A call with a negative target and a catalogue holding a non-positive    *)
(* entry has returned.                                                     *)
NonPositiveTargetWitness ==
    /\ pc = "done"
    /\ targetRP < 0
    /\ Len(tiers) > 0
    /\ ~ValidCatalogue(tiers)
    /\ result.returned

(***************************************************************************)
(* C7  Unreachable target is reported, as claimed: when the scan over      *)
(* targetRP..maxPossibleRP has found no finite cost the call returns no    *)
(* plan, and no returned plan has an unreachable totalRP or an infinite    *)
(* totalPrice.                                                             *)
(***************************************************************************)
ScanFoundNothing ==
    /\ pc \in {"walk", "done", "diverged"}
    /\ targetRP > 0
    /\ \A j \in targetRP..maxPossibleRP : dp[j] = Infinity

UnreachableReported ==
    /\ ScanFoundNothing => ~result.returned
    /\ (result.returned /\ targetRP > 0) =>
           /\ result.totalPrice # Infinity
           /\ dp[result.totalRP] # Infinity

(***************************************************************************)
(* C8  Single denomination.  When a call with the one denomination (a, p)  *)
(* and targetRP = T > 0 has returned, the packages are exactly             *)
(* k = ceil(T / a) copies of it, totalRP = k * a and totalPrice = k * p;   *)
(* for a = 100, p = 10, T = 250 that is 3 copies, 300 and 30.              *)
(***************************************************************************)
SingleDenomination ==
    (Planned /\ Len(tiers) = 1) =>
        LET a == tiers[1].rp
            p == tiers[1].price
            copies == (targetRP + a - 1) \div a
        IN /\ result.packages = [n \in 1..copies |-> tiers[1]]
           /\ result.totalRP = copies * a
           /\ result.totalPrice = Num(copies * p)
           /\ (a = 100 /\ p = 10 /\ targetRP = 250) =>
                  /\ Len(result.packages) = 3
                  /\ result.totalRP = 300
                  /\ result.totalPrice = Num(30)

(* The call with 100/10 and target 250 has returned three copies. *)
SingleDenominationWitness ==
    /\ Planned
    /\ tiers = <<RPPackage(1, 100, 10)>>
    /\ targetRP = 250
    /\ Len(result.packages) = 3

(***************************************************************************)
(* C9  Cost table.  Once the fill loop of a call with a valid catalogue    *)
(* and targetRP > 0 has ended, for every j in 0..maxPossibleRP dp[j] is    *)
(* the least price of a multiset of amount exactly j, and Infinity exactly *)
(* when there is none; dp[0] = 0 and parent[0] is null.                    *)
(***************************************************************************)
Filled == pc \in {"scan", "walk", "done"} /\ targetRP > 0

(* The state in which the fill loop has just ended; no later step writes   *)
(* dp or parent.                                                           *)
FillEnded == pc = "scan" /\ i = targetRP /\ targetRP > 0

ExactPrices(ms, j) == { PriceOf(v) : v \in { w \in ms : AmountOf(w) = j } }

CostTable ==
    FillEnded =>
        LET ms == Multisets IN
            /\ DOMAIN dp = 0..(targetRP + maxRP(tiers))
            /\ \A j \in DOMAIN dp :
                   LET prices == ExactPrices(ms, j) IN
                       IF prices = {}
                           THEN dp[j] = Infinity
                           ELSE /\ dp[j].fin
                                /\ dp[j].val \in prices
                                /\ \A q \in prices : dp[j].val <= q
            /\ dp[0] = Num(0)
            /\ parent[0] = null

(* The fill has just ended with an unreachable amount in the table and an  *)
(* amount that multisets of different prices reach.                        *)
CostTableWitness ==
    /\ FillEnded
    /\ \E j \in DOMAIN dp : dp[j] = Infinity
    /\ \E j \in DOMAIN dp : Cardinality(ExactPrices(Multisets, j)) >= 2

(***************************************************************************)
(* C10  Predecessor chain.  After the fill of a call with a valid          *)
(* catalogue (the contract of the fill), every j in 1..maxPossibleRP with finite dp[j] has a link     *)
(* parent[j] = (d, i0) with i0 < j, j = i0 + d.rp, dp[i0] finite and       *)
(* dp[j] = dp[i0] + d.price.  The walk stands on reachable amounts, every  *)
(* step of it strictly decreases curr, it ends exactly at amount 0, and    *)
(* the packages it has collected account for the amount walked.            *)
(***************************************************************************)
ChainSound ==
    Filled =>
        \A j \in 1..maxPossibleRP :
            dp[j].fin =>
                /\ parent[j] # null
                /\ LET d == parent[j][1].tier
                       i0 == parent[j][1].prevRP
                   IN /\ i0 >= 0
                      /\ i0 < j
                      /\ j = i0 + d.rp
                      /\ dp[i0].fin
                      /\ dp[j] = Plus(dp[i0], d.price)

WalkSound ==
    /\ (pc = "walk" /\ targetRP > 0) =>
           /\ dp[curr].fin
           /\ curr + SumRP(resultPackages) = bestRP
           /\ Len(resultPackages) <= bestRP - curr
    /\ Planned =>
           /\ curr = 0
           /\ result.packages = resultPackages
           /\ Len(result.packages) >= 1

WalkDecreases ==
    (pc = "walk" /\ pc' = "walk") =>
        /\ curr' < curr
        /\ curr' >= 0
        /\ Len(resultPackages') = Len(resultPackages) + 1

ReachableWithinBound ==
    /\ FillEnded =>
           /\ maxPossibleRP = targetRP + maxRP(tiers)
           /\ \E j \in targetRP..(targetRP + maxRP(tiers)) : dp[j].fin
    /\ (pc \in {"walk", "done"} /\ targetRP > 0) => minPrice.fin

(* The fill has ended with the target itself unreachable and a larger      *)
(* amount within the bound reachable.                                      *)
ReachableWithinBoundWitness ==
    /\ FillEnded
    /\ dp[targetRP] = Infinity
    /\ \E j \in (targetRP + 1)..maxPossibleRP : dp[j].fin

(***************************************************************************)
(* C12  Strict improvement.  Every step taken inside the fill loop, for    *)
(* any catalogue, leaves each dp[j] as it was or replaces it by a strictly *)
(* smaller value, changes parent[j] only where dp[j] strictly decreases,   *)
(* and writes at most one entry; so a link recorded for an amount stays    *)
(* when a later combination ties with it.                                  *)
(***************************************************************************)
FillStepImproves ==
    (pc = "fill" /\ pc' \in {"fill", "scan"}) =>
        /\ DOMAIN dp' = DOMAIN dp
        /\ \A j \in DOMAIN dp :
               /\ dp'[j] # dp[j] => Less(dp'[j], dp[j])
               /\ parent'[j] # parent[j] => Less(dp'[j], dp[j])
        /\ Cardinality({ j \in DOMAIN dp : dp'[j] # dp[j] }) <= 1

StrictImprovement == [][FillStepImproves]_vars

(* The inner loop has just passed a tier whose price ties with the entry   *)
(* it reaches, and the link recorded earlier is still there.               *)
StrictImprovementWitness ==
    /\ pc = "fill"
    /\ k > 1
    /\ k <= Len(tiers) + 1
    /\ LET tier == tiers[k - 1]
           nextRP == i + tier.rp
       IN /\ nextRP > i
          /\ nextRP <= maxPossibleRP
          /\ dp[nextRP] = Plus(dp[i], tier.price)
          /\ parent[nextRP] # null
          /\ parent[nextRP] # ParentLink(tier, i)

(***************************************************************************)
(* C13  Order independence.  For a call with a valid catalogue and         *)
(* targetRP > 0, the cost table at the end of the fill, the returned       *)
(* totalRP and the returned totalPrice are those that findOptimalPlan      *)
(* computes for every reordering of the tier list.                         *)
(***************************************************************************)
Reorderings(ts) ==
    { [n \in 1..Len(ts) |-> ts[f[n]]] :
        f \in { g \in [1..Len(ts) -> 1..Len(ts)] :
                  \A a, b \in 1..Len(ts) : g[a] = g[b] => a = b } }

OrderIndependence ==
    /\ FillEnded =>
           \A q \in Reorderings(tiers) : FillTables(targetRP, q).dp = dp
    /\ Planned =>
           \A q \in Reorderings(tiers) :
               /\ PlanOf(targetRP, q).totalRP = result.totalRP
               /\ PlanOf(targetRP, q).totalPrice = result.totalPrice

(* A call has returned whose packages differ from those of a reordering    *)
(* of its tiers, at the same totalRP and totalPrice.                       *)
OrderIndependenceWitness ==
    /\ Planned
    /\ \E q \in Reorderings(tiers) :
           /\ q # tiers
           /\ PlanOf(targetRP, q).packages # result.packages
           /\ PlanOf(targetRP, q).totalPrice = result.totalPrice

(***************************************************************************)
(* C14  Overshoot bound.  When a call with a valid catalogue and           *)
(* targetRP = T > 0 has returned, T <= totalRP < T + maxRP; the ceiling    *)
(* entry T + maxRP is never the selected amount.                           *)
(***************************************************************************)
OvershootBound ==
    Planned =>
        /\ targetRP <= result.totalRP
        /\ result.totalRP < targetRP + maxRP(tiers)
        /\ result.totalRP # maxPossibleRP

(* A call has returned the largest overshoot the bound allows while the    *)
(* ceiling entry itself had a finite cost.                                 *)
OvershootBoundWitness ==
    /\ Planned
    /\ maxRP(tiers) >= 2
    /\ result.totalRP = targetRP + maxRP(tiers) - 1
    /\ dp[maxPossibleRP].fin

(* The function of the arguments and the stepwise call agree. *)
PlanOfAgrees == Planned => PlanOf(targetRP, tiers) = result

(***************************************************************************)
(* C15  Catalogue validity across the UI.  After any sequence of screen    *)
(* changes, settings operations and target edits: every stored custom      *)
(* price is an integer > 0; the tiers of the context are the six default   *)
(* packages with every rp > 0 and price > 0; a call of findOptimalPlan is  *)
(* entered only from PlanScreen, with those tiers and an integer           *)
(* target > 0.  A blur whose text does not parse to an integer > 0 leaves  *)
(* settings unchanged, one that does stores exactly that price; resetAll   *)
(* restores baseTierId 6 and the default prices.                           *)
(***************************************************************************)
CatalogueValid ==
    /\ \A id \in DOMAIN settings.customPrices :
           /\ id \in 1..Len(DEFAULT_RP_TIERS)
           /\ settings.customPrices[id] \in Nat
           /\ settings.customPrices[id] > 0
    /\ Len(AppTiers(settings)) = Len(DEFAULT_RP_TIERS)
    /\ ValidCatalogue(AppTiers(settings))
    /\ pc \in {"idle", "start"}
    /\ pc = "start" =>
           /\ mode = "plan"
           /\ tiers = AppTiers(settings)
           /\ ValidCatalogue(tiers)
           /\ targetRP \in Nat
           /\ targetRP > 0
           /\ ~isNaN(parseInt(planTargetRP))
           /\ targetRP = parseInt(planTargetRP).val

SettingsStepValid ==
    /\ \A tierId \in EditedIds :
           handlePriceBlur(tierId) =>
               LET value == BlurredValue(tierId) IN
                   IF isNaN(value) \/ value.val <= 0
                       THEN settings' = settings
                       ELSE /\ settings'.customPrices[tierId] = value.val
                            /\ settings'.baseTierId = settings.baseTierId
    /\ resetAll =>
           /\ settings'.baseTierId = 6
           /\ AppTiers(settings') = DEFAULT_RP_TIERS

CatalogueValidity == []CatalogueValid /\ [][SettingsStepValid]_vars

(* PlanScreen has entered a call with a custom price in the tiers. *)
CatalogueValidityWitness ==
    /\ pc = "start"
    /\ mode = "plan"
    /\ targetRP = 7
    /\ planTargetRP \in SampleTexts
    /\ \E n \in 1..Len(tiers) : tiers[n].price # DEFAULT_RP_TIERS[n].price

====
